---- MODULE Spec2Model ----
(***************************************************************************)
(* Model of the authentication backend that setup_project.py generates     *)
(* (backend/app/main.py): the email validator, the bcrypt password         *)
(* helpers, and the register / login / validate-email handlers over the    *)
(* in-memory users_db.  FastAPI runs the plain `def` handlers on a thread  *)
(* pool, so handlers of different requests interleave at their accesses    *)
(* to users_db.                                                            *)
(*                                                                         *)
(* Strings the code inspects character by character (emails, passwords)    *)
(* are sequences of one-character strings; strings the code only stores    *)
(* and compares (names, roles, institutions, messages) are TLA+ strings.   *)
(***************************************************************************)
EXTENDS Integers, Sequences, FiniteSets, TLC

VARIABLES
  users_db,   \* the mock DB: email -> account record
  pc,         \* per worker thread: "idle", "reg_insert", "done"
  req,        \* per worker thread: the request being served
  resp,       \* per worker thread: the HTTP response of the finished request
  arg,        \* direct call of a helper: its arguments
  ret,        \* direct call of a helper: its results so far
  session_state,  \* the dashboard UI: st.session_state, key -> value
  view,       \* the dashboard UI: what the last script run rendered
  form,       \* the dashboard UI: the widget event of the last script run
  message     \* the dashboard UI: the st.error text on screen, "" if none

client == <<session_state, view, form, message>>

vars == <<users_db, pc, req, resp, arg, ret, session_state, view, form, message>>

\* ------------------------------------------------------------------ bounds

NumThreads == 2     \* worker threads serving requests concurrently
NumSalts   == 2     \* distinct salts the hash may draw
MaxTime    == 1     \* distinct readings of the clock
MaxLen     == 5     \* longest enumerated input string of the validator

Threads == 1..NumThreads
Salts   == 1..NumSalts
Times   == 1..MaxTime

\* ------------------------------------------------------------ characters

UpperCase == <<"A","B","C","D","E","F","G","H","I","J","K","L","M",
               "N","O","P","Q","R","S","T","U","V","W","X","Y","Z">>
LowerCase == <<"a","b","c","d","e","f","g","h","i","j","k","l","m",
               "n","o","p","q","r","s","t","u","v","w","x","y","z">>

\* str.lower() on one character
LowerChar(c) ==
  IF \E i \in 1..Len(UpperCase) : UpperCase[i] = c
  THEN LowerCase[CHOOSE i \in 1..Len(UpperCase) : UpperCase[i] = c]
  ELSE c

\* str.lower()
lower(s) == [i \in 1..Len(s) |-> LowerChar(s[i])]

\* email.split('@')[-1]: the text after the last '@', the whole string when
\* there is no '@'
LastField(s) ==
  LET ats == {i \in 1..Len(s) : s[i] = "@"}
      last == IF ats = {} THEN 0 ELSE CHOOSE i \in ats : \A j \in ats : j <= i
  IN SubSeq(s, last + 1, Len(s))

\* Python's `sub in s` on strings
Contains(sub, s) ==
  \E i \in 0..(Len(s) - Len(sub)) : SubSeq(s, i + 1, i + Len(sub)) = sub

\* ------------------------------------------------------------- validator

allowed_domains ==
  << <<".","e","d","u">>,
     <<".","a","c",".">>,
     <<".","e","d","u",".","i","n">>,
     <<".","s","c","h","o","o","l",".","n","z">>,
     <<".","a","c",".","u","k">>,
     <<".","e","d","u",".","a","u">> >>

\* the validator without the .lower() call
validate_edu_email_NoLower(email) ==
  LET domain == LastField(email)
  IN \E k \in 1..Len(allowed_domains) : Contains(allowed_domains[k], domain)

validate_edu_email(email) ==
  LET domain == lower(LastField(email))
  IN \E k \in 1..Len(allowed_domains) : Contains(allowed_domains[k], domain)

\* ------------------------------------------------------ password hashing

\* bcrypt reads at most this many bytes of the secret
BcryptMaxBytes == 72

Truncate(secret) ==
  IF Len(secret) > BcryptMaxBytes THEN SubSeq(secret, 1, BcryptMaxBytes) ELSE secret

\* the bcrypt hash string: the salt in clear and a checksum that is a
\* one-way function of the salt and the bytes bcrypt reads
Bcrypt(secret, salt) == [salt |-> salt, checksum |-> <<salt, Truncate(secret)>>]

\* pwd_context.hash(password), the fresh salt made explicit
hash_password(password, salt) == Bcrypt(password, salt)

\* pwd_context.verify(plain_password, hashed_password)
verify_password(plain_password, hashed_password) ==
  Bcrypt(plain_password, hashed_password.salt) = hashed_password

\* ---------------------------------------------------------------- inputs

E_mit   == <<"a","@","m",".","e","d","u">>     \* an educational address
E_gmail == <<"b","@","g",".","c","o","m">>     \* not an educational address
Empty   == <<>>                                \* the empty string ""

PW1 == <<"p">>
PW2 == <<"q">>

BaseUser ==
  [full_name |-> "Ann", email |-> E_mit, password |-> PW1,
   role |-> "student", institution |-> "MIT"]

\* UserRegister bodies: five strings, any of which may be empty
BlankUser ==
  [full_name |-> "", email |-> E_mit, password |-> Empty,
   role |-> "", institution |-> ""]

RegisterInputs ==
  { BaseUser,
    [BaseUser EXCEPT !.password = PW2, !.role = "dean"],
    BlankUser,
    [BaseUser EXCEPT !.email = E_gmail],
    [BaseUser EXCEPT !.email = Empty] }

\* UserLogin bodies
LoginInputs == [email : {E_mit, E_gmail}, password : {PW1, PW2}]

\* the email query parameter of /api/auth/validate-email
ValidateInputs == {E_mit, E_gmail}

NoReq  == [op |-> "none"]
NoForm == [kind |-> "none"]
NoResp == [status |-> 0]
NoRet  == [step |-> 0]

\* raise HTTPException(status_code=..., detail=...)
HTTPException(status_code, detail) == [status |-> status_code, detail |-> detail]

InvalidEmailDomain ==
  HTTPException(400, "Please use a valid educational email address (.edu, .ac.* domains)")
DuplicateAccount == HTTPException(400, "User with this email already exists")
InvalidCredentials == HTTPException(401, "Invalid email or password")

\* users_db[key] = value
Store(db, key, value) ==
  [k \in DOMAIN db \cup {key} |-> IF k = key THEN value ELSE db[k]]

\* a worker thread is free to take the next request
Free(t) == pc[t] \in {"idle", "done"}

\* ---------------------------------------------------------------- server

Init ==
  /\ users_db = [k \in {} |-> NoResp]
  /\ pc = [t \in Threads |-> "idle"]
  /\ req = [t \in Threads |-> NoReq]
  /\ resp = [t \in Threads |-> NoResp]
  /\ arg = NoReq
  /\ ret = NoRet
  /\ session_state = [k \in {} |-> FALSE]
  /\ view = "none"
  /\ form = NoForm
  /\ message = ""

\* register without the duplicate check
RegisterCheck_NoDupCheck(t, user) ==
  /\ Free(t)
  /\ req' = [req EXCEPT ![t] = [op |-> "register", user |-> user]]
  /\ IF ~validate_edu_email(user.email)
     THEN /\ resp' = [resp EXCEPT ![t] = InvalidEmailDomain]
          /\ pc' = [pc EXCEPT ![t] = "done"]
     ELSE /\ resp' = [resp EXCEPT ![t] = NoResp]
          /\ pc' = [pc EXCEPT ![t] = "reg_insert"]
  /\ UNCHANGED <<users_db, arg, ret, client>>

\* register writing the record before it looks for a duplicate
RegisterCheck_WriteFirst(t, user) ==
  /\ Free(t)
  /\ req' = [req EXCEPT ![t] = [op |-> "register", user |-> user]]
  /\ IF ~validate_edu_email(user.email)
     THEN /\ resp' = [resp EXCEPT ![t] = InvalidEmailDomain]
          /\ pc' = [pc EXCEPT ![t] = "done"]
          /\ UNCHANGED users_db
     ELSE IF user.email \in DOMAIN users_db
     THEN /\ \E salt \in Salts, now \in Times :
               users_db' = Store(users_db, user.email,
                             [full_name |-> user.full_name,
                              password_hash |-> hash_password(user.password, salt),
                              role |-> user.role,
                              institution |-> user.institution,
                              created_at |-> now])
          /\ resp' = [resp EXCEPT ![t] = DuplicateAccount]
          /\ pc' = [pc EXCEPT ![t] = "done"]
     ELSE /\ resp' = [resp EXCEPT ![t] = NoResp]
          /\ pc' = [pc EXCEPT ![t] = "reg_insert"]
          /\ UNCHANGED users_db
  /\ UNCHANGED <<arg, ret, client>>

\* register, first half: the validator and the duplicate check
RegisterCheck(t, user) ==
  /\ Free(t)
  /\ req' = [req EXCEPT ![t] = [op |-> "register", user |-> user]]
  /\ IF ~validate_edu_email(user.email)
     THEN /\ resp' = [resp EXCEPT ![t] = InvalidEmailDomain]
          /\ pc' = [pc EXCEPT ![t] = "done"]
     ELSE IF user.email \in DOMAIN users_db
     THEN /\ resp' = [resp EXCEPT ![t] = DuplicateAccount]
          /\ pc' = [pc EXCEPT ![t] = "done"]
     ELSE /\ resp' = [resp EXCEPT ![t] = NoResp]
          /\ pc' = [pc EXCEPT ![t] = "reg_insert"]
  /\ UNCHANGED <<users_db, arg, ret, client>>

\* register keeping the record that is already in the store
\* (users_db.setdefault in place of the assignment)
RegisterInsert_KeepFirst(t) ==
  /\ pc[t] = "reg_insert"
  /\ LET user == req[t].user IN
     \E salt \in Salts, now \in Times :
       /\ users_db' =
            IF user.email \in DOMAIN users_db THEN users_db
            ELSE Store(users_db, user.email,
                   [full_name |-> user.full_name,
                    password_hash |-> hash_password(user.password, salt),
                    role |-> user.role,
                    institution |-> user.institution,
                    created_at |-> now])
       /\ resp' = [resp EXCEPT ![t] =
                     [status |-> 200, message |-> "Registration successful",
                      email |-> user.email, role |-> user.role]]
  /\ pc' = [pc EXCEPT ![t] = "done"]
  /\ UNCHANGED <<req, arg, ret, client>>

\* register, second half: hash the password, write the record, answer 200
RegisterInsert(t) ==
  /\ pc[t] = "reg_insert"
  /\ LET user == req[t].user IN
     \E salt \in Salts, now \in Times :
       /\ users_db' = Store(users_db, user.email,
                        [full_name |-> user.full_name,
                         password_hash |-> hash_password(user.password, salt),
                         role |-> user.role,
                         institution |-> user.institution,
                         created_at |-> now])
       /\ resp' = [resp EXCEPT ![t] =
                     [status |-> 200, message |-> "Registration successful",
                      email |-> user.email, role |-> user.role]]
  /\ pc' = [pc EXCEPT ![t] = "done"]
  /\ UNCHANGED <<req, arg, ret, client>>

\* login telling an unknown email from a wrong password
login_UserNotFound(t, login_data) ==
  /\ Free(t)
  /\ req' = [req EXCEPT ![t] = [op |-> "login", login_data |-> login_data]]
  /\ IF login_data.email \notin DOMAIN users_db
     THEN resp' = [resp EXCEPT ![t] = HTTPException(404, "User not found")]
     ELSE IF ~verify_password(login_data.password,
                              users_db[login_data.email].password_hash)
     THEN resp' = [resp EXCEPT ![t] = InvalidCredentials]
     ELSE resp' = [resp EXCEPT ![t] =
                     [status |-> 200, message |-> "Login successful",
                      email |-> login_data.email,
                      role |-> users_db[login_data.email].role,
                      full_name |-> users_db[login_data.email].full_name]]
  /\ pc' = [pc EXCEPT ![t] = "done"]
  /\ UNCHANGED <<users_db, arg, ret, client>>

login(t, login_data) ==
  /\ Free(t)
  /\ req' = [req EXCEPT ![t] = [op |-> "login", login_data |-> login_data]]
  /\ IF \/ login_data.email \notin DOMAIN users_db
        \/ ~verify_password(login_data.password,
                            users_db[login_data.email].password_hash)
     THEN resp' = [resp EXCEPT ![t] = InvalidCredentials]
     ELSE resp' = [resp EXCEPT ![t] =
                     [status |-> 200, message |-> "Login successful",
                      email |-> login_data.email,
                      role |-> users_db[login_data.email].role,
                      full_name |-> users_db[login_data.email].full_name]]
  /\ pc' = [pc EXCEPT ![t] = "done"]
  /\ UNCHANGED <<users_db, arg, ret, client>>

validate_email(t, email) ==
  /\ Free(t)
  /\ req' = [req EXCEPT ![t] = [op |-> "validate_email", email |-> email]]
  /\ LET is_valid == validate_edu_email(email) IN
     resp' = [resp EXCEPT ![t] =
                [status |-> 200, email |-> email, is_valid_educational |-> is_valid,
                 message |-> IF is_valid THEN "Valid educational email"
                             ELSE "Please use .edu or academic domain"]]
  /\ pc' = [pc EXCEPT ![t] = "done"]
  /\ UNCHANGED <<users_db, arg, ret, client>>

Next ==
  \E t \in Threads :
    \/ \E user \in RegisterInputs : RegisterCheck(t, user)
    \/ RegisterInsert(t)
    \/ \E login_data \in LoginInputs : login(t, login_data)
    \/ \E email \in ValidateInputs : validate_email(t, email)

Spec == Init /\ [][Next]_vars

\* ------------------------------------------------- helpers called directly

Alphabet == {"@", ".", "e", "d", "u"}

\* every string over Alphabet of at most MaxLen characters
BoundedStrings == UNION {[1..n -> Alphabet] : n \in 0..MaxLen}

SampleEmails ==
  { E_mit, E_gmail,
    <<"A","@","M",".","E","D","U">>,
    <<"a","@","o","x",".","a","c",".","u","k">>,
    <<"a","@","b",".","a","c",".","j","p">>,
    <<"a","@","b",".","e","d","u",".","i","n">>,
    <<"a","@","b",".","e","d","u",".","a","u">>,
    <<"a","@","b",".","s","c","h","o","o","l",".","n","z">>,
    <<"a","@","b",".","S","c","h","o","o","l",".","N","Z">>,
    <<"a","@","b",".","s","c","h","o","o","l">>,
    <<"a","@","b",".","c","o","l","l","e","g","e">>,
    <<"x",".","e","d","u","@","g",".","c","o","m">>,
    <<"a","@","m",".","e","d","u","@","g",".","c","o","m">>,
    <<"a","@","g",".","c","o","m","@","m",".","e","d","u">>,
    <<"m","i","t",".","e","d","u">>,
    <<"n","o","a","t","s","i","g","n">>,
    <<"a","@","b","a","c",".","u","k">> }

ValidatorInputs == BoundedStrings \cup SampleEmails

\* a password one byte longer than bcrypt reads, ending in c
LongPassword(c) ==
  [i \in 1..(BcryptMaxBytes + 1) |-> IF i <= BcryptMaxBytes THEN "x" ELSE c]

PasswordInputs ==
  { Empty, PW1, PW2, <<"p","q">>, <<"P">>,
    SubSeq(LongPassword("p"), 1, BcryptMaxBytes),
    LongPassword("p"), LongPassword("q") }

FnInit ==
  /\ users_db = [k \in {} |-> NoResp]
  /\ pc = [t \in Threads |-> "idle"]
  /\ req = [t \in Threads |-> NoReq]
  /\ resp = [t \in Threads |-> NoResp]
  /\ arg \in [op : {"validate_edu_email"}, email : ValidatorInputs]
          \cup [op : {"hash_verify"}, password : PasswordInputs,
                plain_password : PasswordInputs]
  /\ ret = NoRet
  /\ session_state = [k \in {} |-> FALSE]
  /\ view = "none"
  /\ form = NoForm
  /\ message = ""

\* validate_edu_email(email)
CallValidate ==
  /\ arg.op = "validate_edu_email"
  /\ ret = NoRet
  /\ ret' = [step |-> 1, value |-> validate_edu_email(arg.email)]
  /\ UNCHANGED <<users_db, pc, req, resp, arg, client>>

\* hashed = hash_password(password), with the salt bcrypt draws
CallHash ==
  /\ arg.op = "hash_verify"
  /\ ret = NoRet
  /\ \E salt \in Salts :
       ret' = [step |-> 1, hashed |-> hash_password(arg.password, salt)]
  /\ UNCHANGED <<users_db, pc, req, resp, arg, client>>

\* verify_password(plain_password, hashed)
CallVerify ==
  /\ arg.op = "hash_verify"
  /\ ret.step = 1
  /\ ret' = [step |-> 2, hashed |-> ret.hashed,
             ok |-> verify_password(arg.plain_password, ret.hashed)]
  /\ UNCHANGED <<users_db, pc, req, resp, arg, client>>

FnNext == CallValidate \/ CallHash \/ CallVerify

FnSpec == FnInit /\ [][FnNext]_vars

\* ------------------------------------------------------------ dashboard UI
\* streamlit_app/app.py: one browser session.  Every widget event runs the
\* script once; st.rerun() runs it again from the top.

\* the substrings both client forms look for
client_domains ==
  << <<".","e","d","u">>,
     <<".","a","c",".">>,
     <<".","s","c","h","o","o","l">>,
     <<".","c","o","l","l","e","g","e">> >>

\* any(domain in email.lower() for domain in [...])
client_email_ok(email) ==
  \E k \in 1..Len(client_domains) : Contains(client_domains[k], lower(email))

staff_words ==
  << <<"p","r","o","f">>, <<"s","t","a","f","f">>, <<"f","a","c","u","l","t","y">> >>

IsLetter(c) ==
  \E i \in 1..Len(UpperCase) : UpperCase[i] = c \/ LowerCase[i] = c

\* str.upper() on one character
UpperChar(c) ==
  IF \E i \in 1..Len(LowerCase) : LowerCase[i] = c
  THEN UpperCase[CHOOSE i \in 1..Len(LowerCase) : LowerCase[i] = c]
  ELSE c

\* str.title()
title(s) ==
  [i \in 1..Len(s) |->
     IF i > 1 /\ IsLetter(s[i - 1]) THEN LowerChar(s[i]) ELSE UpperChar(s[i])]

\* domain.split('.')[0]: the text before the first '.', the whole string
\* when there is no '.'
FirstLabel(s) ==
  LET dots == {i \in 1..Len(s) : s[i] = "."}
      first == IF dots = {} THEN Len(s) + 1
               ELSE CHOOSE i \in dots : \A j \in dots : i <= j
  IN SubSeq(s, 1, first - 1)

MinPasswordLen == 8

R_student   == <<"s","t","u","d","e","n","t">>
R_professor == <<"p","r","o","f","e","s","s","o","r">>

\* the options of the role selectbox
RoleOptions ==
  { <<"S","t","u","d","e","n","t">>,
    <<"P","r","o","f","e","s","s","o","r">>,
    <<"R","e","s","e","a","r","c","h","e","r">>,
    <<"A","d","m","i","n","i","s","t","r","a","t","o","r">> }

E_local_edu == <<"x",".","e","d","u","@","g",".","c","o","m">>
E_prof      == <<"p","r","o","f","@","h",".","a","c",".","u","k">>
PW8         == <<"p","a","s","s","w","o","r","d">>
I_mit       == <<"M","I","T">>

\* what the user can type into the forms
ClientEmails    == {Empty, E_mit, E_gmail, E_local_edu, E_prof}
ClientPasswords == {Empty, PW1, PW8}
ClientConfirms  == {PW1, PW8}

\* 'logged_in' not in st.session_state => st.session_state.logged_in = False
Initialised(ss) ==
  IF "logged_in" \in DOMAIN ss THEN ss ELSE Store(ss, "logged_in", FALSE)

\* if not st.session_state.logged_in: login_ui() else: main_dashboard()
Rendered(ss) == IF ~ss["logged_in"] THEN "login" ELSE "dashboard"

\* a script run with no event of the forms or buttons below
Run ==
  /\ session_state' = Initialised(session_state)
  /\ view' = Rendered(session_state')
  /\ form' = NoForm
  /\ message' = ""
  /\ UNCHANGED <<users_db, pc, req, resp, arg, ret>>

\* the sign-in form is submitted
SignIn(email, password) ==
  /\ view = "login"
  /\ form' = [kind |-> "signin", email |-> email, password |-> password]
  /\ IF email # Empty /\ password # Empty
     THEN IF client_email_ok(email)
          THEN /\ session_state' =
                    Initialised(
                      Store(Store(Store(Store(session_state,
                        "logged_in", TRUE),
                        "user_email", email),
                        "user_institution", title(FirstLabel(LastField(email)))),
                        "user_role",
                          IF \E k \in 1..Len(staff_words) :
                               Contains(staff_words[k], lower(email))
                          THEN R_professor ELSE R_student))
               /\ view' = Rendered(session_state')
               /\ message' = ""
          ELSE /\ message' =
                    "Please use a valid educational email address (.edu, .ac.* domains)"
               /\ UNCHANGED <<session_state, view>>
     ELSE /\ message' = "Please fill in all fields"
          /\ UNCHANGED <<session_state, view>>
  /\ UNCHANGED <<users_db, pc, req, resp, arg, ret>>

\* the registration form without the terms check
Register_NoTerms(full_name, email, password, confirm_password, role, institution_input, agree_terms) ==
  /\ view = "login"
  /\ form' = [kind |-> "register", full_name |-> full_name, email |-> email,
              password |-> password, confirm_password |-> confirm_password,
              role |-> role, institution_input |-> institution_input,
              agree_terms |-> agree_terms]
  /\ IF full_name = "" \/ email = Empty \/ password = Empty
          \/ institution_input = Empty
     THEN /\ message' = "Please fill in all required fields"
          /\ UNCHANGED <<session_state, view>>
     ELSE IF Len(password) < MinPasswordLen
     THEN /\ message' = "Password must be at least 8 characters long"
          /\ UNCHANGED <<session_state, view>>
     ELSE IF password # confirm_password
     THEN /\ message' = "Passwords do not match"
          /\ UNCHANGED <<session_state, view>>
     ELSE IF ~client_email_ok(email)
     THEN /\ message' =
               "Please use a valid educational email address (.edu, .ac.* domains)"
          /\ UNCHANGED <<session_state, view>>
     ELSE /\ session_state' =
               Initialised(
                 Store(Store(Store(Store(Store(session_state,
                   "logged_in", TRUE),
                   "user_email", email),
                   "user_role", lower(role)),
                   "user_institution", institution_input),
                   "full_name", full_name))
          /\ view' = Rendered(session_state')
          /\ message' = ""
  /\ UNCHANGED <<users_db, pc, req, resp, arg, ret>>

\* the registration form is submitted
Register(full_name, email, password, confirm_password, role, institution_input, agree_terms) ==
  /\ view = "login"
  /\ form' = [kind |-> "register", full_name |-> full_name, email |-> email,
              password |-> password, confirm_password |-> confirm_password,
              role |-> role, institution_input |-> institution_input,
              agree_terms |-> agree_terms]
  /\ IF full_name = "" \/ email = Empty \/ password = Empty
          \/ institution_input = Empty
     THEN /\ message' = "Please fill in all required fields"
          /\ UNCHANGED <<session_state, view>>
     ELSE IF Len(password) < MinPasswordLen
     THEN /\ message' = "Password must be at least 8 characters long"
          /\ UNCHANGED <<session_state, view>>
     ELSE IF password # confirm_password
     THEN /\ message' = "Passwords do not match"
          /\ UNCHANGED <<session_state, view>>
     ELSE IF ~agree_terms
     THEN /\ message' = "Please agree to the terms and conditions"
          /\ UNCHANGED <<session_state, view>>
     ELSE IF ~client_email_ok(email)
     THEN /\ message' =
               "Please use a valid educational email address (.edu, .ac.* domains)"
          /\ UNCHANGED <<session_state, view>>
     ELSE /\ session_state' =
               Initialised(
                 Store(Store(Store(Store(Store(session_state,
                   "logged_in", TRUE),
                   "user_email", email),
                   "user_role", lower(role)),
                   "user_institution", institution_input),
                   "full_name", full_name))
          /\ view' = Rendered(session_state')
          /\ message' = ""
  /\ UNCHANGED <<users_db, pc, req, resp, arg, ret>>

\* a Quick Demo Access button is pressed
DemoLogin(key, email, role, institution, full_name) ==
  /\ view = "login"
  /\ form' = [kind |-> key]
  /\ session_state' =
       Initialised(
         Store(Store(Store(Store(Store(session_state,
           "logged_in", TRUE),
           "user_email", email),
           "user_role", role),
           "user_institution", institution),
           "full_name", full_name))
  /\ view' = Rendered(session_state')
  /\ message' = ""
  /\ UNCHANGED <<users_db, pc, req, resp, arg, ret>>

ProfDemo ==
  DemoLogin("prof_demo",
            <<"p","r","o","f",".","s","m","i","t","h","@",
              "h","a","r","v","a","r","d",".","e","d","u">>,
            R_professor, <<"H","a","r","v","a","r","d">>, "Professor Smith")

StudentDemo ==
  DemoLogin("student_demo",
            <<"s","t","u","d","e","n","t",".","j","o","h","n","@",
              "s","t","a","n","f","o","r","d",".","e","d","u">>,
            R_student, <<"S","t","a","n","f","o","r","d">>, "John Student")

\* Logout resetting the flag and keeping the other keys
Logout_KeepKeys ==
  /\ view = "dashboard"
  /\ form' = [kind |-> "logout"]
  /\ session_state' = Store(session_state, "logged_in", FALSE)
  /\ view' = Rendered(session_state')
  /\ message' = ""
  /\ UNCHANGED <<users_db, pc, req, resp, arg, ret>>

\* the Logout button of the sidebar: delete every key, st.rerun()
Logout ==
  /\ view = "dashboard"
  /\ form' = [kind |-> "logout"]
  /\ session_state' = Initialised([k \in {} |-> FALSE])
  /\ view' = Rendered(session_state')
  /\ message' = ""
  /\ UNCHANGED <<users_db, pc, req, resp, arg, ret>>

ClientInit ==
  /\ users_db = [k \in {} |-> NoResp]
  /\ pc = [t \in Threads |-> "idle"]
  /\ req = [t \in Threads |-> NoReq]
  /\ resp = [t \in Threads |-> NoResp]
  /\ arg \in [op : {"validate_edu_email"}, email : {E_mit, E_gmail, E_local_edu}]
  /\ ret = NoRet
  /\ session_state = [k \in {} |-> FALSE]
  /\ view = "none"
  /\ form = NoForm
  /\ message = ""

\* the three places that test an email against an allow-list: the two
\* forms of the dashboard UI and the server's validator
ClientNext ==
  \/ Run
  \/ \E email \in ClientEmails, password \in ClientPasswords :
       SignIn(email, password)
  \/ \E full_name \in {"", "Ann"}, email \in ClientEmails,
        password \in ClientPasswords, confirm_password \in ClientConfirms,
        role \in RoleOptions, institution_input \in {Empty, I_mit},
        agree_terms \in BOOLEAN :
       Register(full_name, email, password, confirm_password, role,
                institution_input, agree_terms)
  \/ ProfDemo
  \/ StudentDemo
  \/ Logout
  \/ CallValidate

ClientSpec == ClientInit /\ [][ClientNext]_vars

\* ------------------------------------------------------------ properties

\* the validator has been called on arg.email and has returned
Validated == arg.op = "validate_edu_email" /\ ret.step = 1

\* character c, lowercased, is x
LowerOf(c, x) ==
  c = x \/ \E i \in 1..Len(UpperCase) : UpperCase[i] = c /\ LowerCase[i] = x

\* d occurs in w, letter case of w ignored
OccursIn(d, w) ==
  \E i \in 1..Len(w) :
    /\ i + Len(d) - 1 <= Len(w)
    /\ \A j \in 1..Len(d) : LowerOf(w[i + j - 1], d[j])

HasAt(s) == \E i \in 1..Len(s) : s[i] = "@"

\* the domain portion of s: everything after the last '@'; no '@', no domain
DomainPortion(s) ==
  { SubSeq(s, k + 1, Len(s)) :
      k \in {k \in 1..Len(s) : s[k] = "@" /\ \A i \in (k + 1)..Len(s) : s[i] # "@"} }

Dot_edu    == <<".","e","d","u">>
Dot_ac_    == <<".","a","c",".">>
Dot_edu_in == <<".","e","d","u",".","i","n">>
Dot_ac_uk  == <<".","a","c",".","u","k">>
Dot_edu_au == <<".","e","d","u",".","a","u">>
Dot_school_nz == <<".","s","c","h","o","o","l",".","n","z">>

ClaimedDomains == {Dot_edu, Dot_ac_, Dot_edu_in, Dot_ac_uk, Dot_edu_au}

\* C5, as stated: for every email (an input with an '@'), the validator
\* returns true when the domain contains .edu, .ac., .edu.in, .ac.uk or
\* .edu.au, and false when it contains none of these five.
C5_Original ==
  (Validated /\ HasAt(arg.email)) =>
    (ret.value <=> \E dom \in DomainPortion(arg.email), d \in ClaimedDomains :
                     OccursIn(d, dom))

\* C5, amended: for every email (an input with an '@'), the validator
\* returns true when the domain contains .edu, .ac., .edu.in, .ac.uk,
\* .edu.au or .school.nz, and false when it contains none of these six.
C5_ValidatorAllowList ==
  (Validated /\ HasAt(arg.email)) =>
    (ret.value <=> \E dom \in DomainPortion(arg.email),
                      d \in ClaimedDomains \cup {Dot_school_nz} :
                     OccursIn(d, dom))

\* the validator accepted an email whose domain contains .school.nz and
\* none of the five listed substrings
C5_Witness ==
  /\ Validated
  /\ ret.value = TRUE
  /\ \E dom \in DomainPortion(arg.email) :
       /\ OccursIn(Dot_school_nz, dom)
       /\ \A d \in ClaimedDomains : ~OccursIn(d, dom)

\* C6: every input without '@' has an empty domain and fails validation.
C6_Original == (Validated /\ ~HasAt(arg.email)) => ret.value = FALSE

\* C9: hashing round-trips: verify_password(q, hash_password(p)) succeeds
\* when q = p and fails for every q different from p.
C9_Original ==
  (arg.op = "hash_verify" /\ ret.step = 2) =>
    (ret.ok <=> arg.plain_password = arg.password)

\* thread t takes a step
Acts(t) == <<pc[t], req[t], resp[t]>> # <<pc'[t], req'[t], resp'[t]>>

\* thread t starts serving a call of handler op in this step
Starts(t, op) == Acts(t) /\ Free(t) /\ req'[t].op = op

\* thread t finishes a call in this step
Finishes(t) == Acts(t) /\ pc'[t] = "done"

\* C1: registering the same email twice yields success, then
\* DuplicateAccount.  No email ever leaves the store; a register call for a
\* valid email that the duplicate check does not find in the store passes
\* the check and answers 200 with the email stored; and a register call
\* made once the email is in the store fails with the duplicate-account
\* error (400), whatever its other fields.
C1_RegisterTwice ==
  [][\A t \in Threads :
       /\ DOMAIN users_db \subseteq DOMAIN users_db'
       /\ Starts(t, "register") =>
            LET e == req'[t].user.email IN
              /\ e \in DOMAIN users_db =>
                   pc'[t] = "done" /\ resp'[t] = DuplicateAccount
              /\ (validate_edu_email(e) /\ e \notin DOMAIN users_db) =>
                   pc'[t] = "reg_insert"
       /\ (pc[t] = "reg_insert" /\ Acts(t)) =>
            /\ pc'[t] = "done"
            /\ resp'[t].status = 200
            /\ resp'[t].email = req[t].user.email
            /\ req[t].user.email \in DOMAIN users_db'
    ]_vars

\* one register call answered 200 and another, with the same email and
\* other fields, answered with the duplicate-account error
C1_Witness ==
  \E t, u \in Threads :
    /\ pc[t] = "done" /\ req[t].op = "register" /\ resp[t].status = 200
    /\ pc[u] = "done" /\ req[u].op = "register" /\ resp[u] = DuplicateAccount
    /\ req[u].user.email = req[t].user.email
    /\ req[u].user # req[t].user

\* C2: once an Account exists, no later step removes it or changes its
\* password_hash or created_at (its email is its key in the store).
C2_Original ==
  [][\A e \in DOMAIN users_db :
       /\ e \in DOMAIN users_db'
       /\ users_db'[e].password_hash = users_db[e].password_hash
       /\ users_db'[e].created_at = users_db[e].created_at
    ]_vars

\* C3: once register(n, e, p, r, i) has answered 200, every later
\* login(e, p) answers 200 with role r and full name n.
C3_Original ==
  [][\A t, u \in Threads :
       ( /\ u # t
         /\ pc[u] = "done" /\ req[u].op = "register" /\ resp[u].status = 200
         /\ Starts(t, "login")
         /\ req'[t].login_data.email = req[u].user.email
         /\ req'[t].login_data.password = req[u].user.password )
       => /\ resp'[t].status = 200
          /\ resp'[t].role = req[u].user.role
          /\ resp'[t].full_name = req[u].user.full_name
    ]_vars

C7_NoPartialState ==
  [][\A t \in Threads :
       (Finishes(t) /\ resp'[t].status # 200) => users_db' = users_db
    ]_vars

\* a register call rejected as duplicate and a login rejected, with the
\* account registered before still in the store
C7_Witness ==
  \E t, u \in Threads :
    /\ pc[t] = "done" /\ req[t].op = "register" /\ resp[t] = DuplicateAccount
    /\ pc[u] = "done" /\ req[u].op = "login" /\ resp[u] = InvalidCredentials
    /\ req[t].user.email \in DOMAIN users_db

HasEmptyField(user) ==
  \/ user.full_name = "" \/ user.email = Empty \/ user.password = Empty
  \/ user.role = "" \/ user.institution = ""

\* C8: a register call in which any of the five fields is empty fails with
\* an error and inserts no Account.
C8_Original ==
  [][\A t \in Threads :
       (Finishes(t) /\ req'[t].op = "register" /\ HasEmptyField(req'[t].user))
       => (resp'[t].status # 200 /\ users_db' = users_db)
    ]_vars

\* C10: the duplicate check of register is not atomic with the insert.  A
\* register call for a valid email that is not in the store passes the
\* check even while another call for the same email is between its check
\* and its insert; and every call that passed the check inserts and
\* answers 200 without looking again, so the record in the store is then
\* the one built from that call, whatever was there before.
C10_CheckThenAct ==
  [][\A t \in Threads :
       /\ ( /\ Starts(t, "register")
            /\ validate_edu_email(req'[t].user.email)
            /\ req'[t].user.email \notin DOMAIN users_db )
          => pc'[t] = "reg_insert"
       /\ (pc[t] = "reg_insert" /\ Acts(t)) =>
            LET user == req[t].user IN
              /\ resp'[t].status = 200
              /\ user.email \in DOMAIN users_db'
              /\ users_db'[user.email].full_name = user.full_name
              /\ users_db'[user.email].role = user.role
              /\ users_db'[user.email].institution = user.institution
              /\ verify_password(user.password,
                                 users_db'[user.email].password_hash)
    ]_vars

\* two register calls for one email, with different passwords, both
\* answered 200, and the store holds the record of only one of them
C10_Witness ==
  \E t, u \in Threads :
    /\ t # u
    /\ pc[t] = "done" /\ req[t].op = "register" /\ resp[t].status = 200
    /\ pc[u] = "done" /\ req[u].op = "register" /\ resp[u].status = 200
    /\ req[t].user.email = req[u].user.email
    /\ ~verify_password(req[t].user.password,
                        users_db[req[t].user.email].password_hash)
    /\ verify_password(req[u].user.password,
                       users_db[req[u].user.email].password_hash)

Roles == {"student", "professor", "researcher", "administrator"}

\* C11: in every reachable state, the role of every Account in the store is
\* one of student, professor, researcher, administrator.
C11_Original == \A e \in DOMAIN users_db : users_db[e].role \in Roles

Dot_school  == <<".","s","c","h","o","o","l">>
Dot_college == <<".","c","o","l","l","e","g","e">>

ServerListed == ClaimedDomains \cup {Dot_school_nz}
ClientListed == {Dot_edu, Dot_ac_, Dot_school, Dot_college}

\* e has an '@' and no listed substring after its last '@'
NoneInDomain(listed, e) ==
  /\ HasAt(e)
  /\ \A dom \in DomainPortion(e), d \in listed : ~OccursIn(d, dom)

\* C12: at every call site the allow-list is matched against the lowercased
\* domain portion of the email, so an email with no allow-listed substring
\* after its last '@' is rejected by the server validator, by the sign-in
\* form and by the registration form.
C12_Original ==
  /\ (Validated /\ NoneInDomain(ServerListed, arg.email)) => ret.value = FALSE
  /\ (form.kind \in {"signin", "register"}
        /\ NoneInDomain(ClientListed, form.email)) => view # "dashboard"

LoggedIn ==
  "logged_in" \in DOMAIN session_state /\ session_state["logged_in"] = TRUE

LoggedOut ==
  "logged_in" \in DOMAIN session_state /\ session_state["logged_in"] = FALSE

\* the email contains a substring the client forms look for
MatchesClientList(e) == \E d \in ClientListed : OccursIn(d, e)

\* every check of the registration form
RegisterChecksPass(f) ==
  /\ f.full_name # "" /\ f.email # Empty /\ f.password # Empty
  /\ f.institution_input # Empty
  /\ Len(f.password) >= 8
  /\ f.password = f.confirm_password
  /\ f.agree_terms
  /\ MatchesClientList(f.email)

\* x is w in lower case
IsLowercaseOf(x, w) ==
  /\ Len(x) = Len(w)
  /\ \A i \in 1..Len(w) :
       /\ LowerOf(w[i], x[i])
       /\ \A k \in 1..Len(UpperCase) : x[i] # UpperCase[k]

\* ss is the session of a user registered with form f
RegisteredSession(f, ss) ==
  /\ {"logged_in", "user_email", "user_role", "user_institution", "full_name"}
       \subseteq DOMAIN ss
  /\ ss["logged_in"] = TRUE
  /\ ss["user_email"] = f.email
  /\ IsLowercaseOf(ss["user_role"], f.role)
  /\ ss["user_institution"] = f.institution_input
  /\ ss["full_name"] = f.full_name

\* the registration form is submitted in this step
RegisterStep == form'.kind = "register" /\ client' # client

\* C13: a submitted registration form logs the user in (logged_in true, with
\* the submitted email, lowercased role, institution and full name) only if
\* full name, email, password and institution are non-empty, the password
\* has at least 8 characters and equals its confirmation, the terms are
\* accepted and the email matches the client allow-list; if any of these
\* fails, an error is shown and the session state is unchanged.
C13_ClientRegistration ==
  [][RegisterStep =>
       /\ LoggedIn' =>
            /\ RegisterChecksPass(form')
            /\ RegisteredSession(form', session_state')
            /\ view' = "dashboard"
       /\ ~RegisterChecksPass(form') =>
            /\ session_state' = session_state
            /\ message' # ""
            /\ view' = "login"
    ]_vars

\* a registration as Professor went through: the dashboard is shown and
\* the session holds the lowercased role
C13_Witness ==
  /\ form.kind = "register"
  /\ view = "dashboard"
  /\ RegisteredSession(form, session_state)
  /\ session_state["user_role"] = R_professor

\* the sign-in form accepts
SignInAccepts(f) ==
  f.email # Empty /\ f.password # Empty /\ MatchesClientList(f.email)

\* C14: the first script run of a session sets logged_in to false and shows
\* the login UI; the dashboard is rendered only with logged_in true and the
\* login UI only with logged_in false; logged_in becomes true only by a
\* sign-in with non-empty email and password and an allow-listed email, by
\* a registration that passes every check, or by a demo button; and logout
\* leaves no session key but logged_in = false and shows the login UI.
C14_SessionMachine ==
  [][/\ (view = "none" /\ client' # client) => (LoggedOut' /\ view' = "login")
     /\ view' = "dashboard" => LoggedIn'
     /\ view' = "login" => LoggedOut'
     /\ (~LoggedIn /\ LoggedIn') =>
          \/ form'.kind = "signin" /\ SignInAccepts(form')
          \/ form'.kind = "register" /\ RegisterChecksPass(form')
          \/ form'.kind \in {"prof_demo", "student_demo"}
     /\ (form'.kind = "logout" /\ client' # client) =>
          /\ DOMAIN session_state' = {"logged_in"}
          /\ LoggedOut'
          /\ view' = "login"
    ]_vars

\* a user who was logged in has logged out: the login UI is shown again and
\* the session holds nothing but logged_in = false
C14_Witness ==
  /\ form.kind = "logout"
  /\ view = "login"
  /\ DOMAIN session_state = {"logged_in"}
  /\ LoggedOut

====
